---- MODULE Spec2Model ----
(***************************************************************************)
(* Model of the all-vs-all correlation pipeline of ggca (src/src/lib.rs):  *)
(* ExperimentFromFiles::compute = get_both_df_and_shape ; all_vs_all.      *)
(*                                                                         *)
(* Real numbers (correlation, p-value, adjusted p-value, threshold) are    *)
(* exact rationals <<numerator, denominator>> in lowest terms with a       *)
(* positive denominator; <<0, 0>> stands for the f64 not-a-number.         *)
(* Option<f64> is a sequence: <<>> is None and <<q>> is Some(q).           *)
(* The modules correlation, adjustment and external_sort are declared in   *)
(* lib.rs but their code is not part of the sources; they are modelled     *)
(* from sections 4.2, 4.3 and 4.4 of the specification.                    *)
(***************************************************************************)
EXTENDS Integers, Sequences, FiniteSets, TLC

\* Largest number of data rows of an input file.
MaxRows == 2

----------------------------------------------------------------------------
(* Rational arithmetic *)

RECURSIVE GCD(_, _)
GCD(a, b) == IF b = 0 THEN a ELSE GCD(b, a % b)

IAbs(n) == IF n < 0 THEN -n ELSE n

Rat(n, d) ==
    LET s == IF d < 0 THEN -1 ELSE 1
        g == GCD(IAbs(n), IAbs(d))
    IN  IF d = 0 THEN <<0, 0>> ELSE <<(s * n) \div g, (s * d) \div g>>

NaN == <<0, 0>>
Zero == <<0, 1>>
One == <<1, 1>>

IsNaN(x) == x[2] = 0
RLt(a, b) == a[1] * b[2] < b[1] * a[2]
RLeq(a, b) == a[1] * b[2] <= b[1] * a[2]
RMul(a, b) == Rat(a[1] * b[1], a[2] * b[2])
RAdd(a, b) == Rat(a[1] * b[2] + b[1] * a[2], a[2] * b[2])
RSub(a, b) == Rat(a[1] * b[2] - b[1] * a[2], a[2] * b[2])
RAbs(a) == <<IAbs(a[1]), a[2]>>
\* f64::min and f64::max
RMin(a, b) == IF RLeq(a, b) THEN a ELSE b
RMax(a, b) == IF RLeq(a, b) THEN b ELSE a

----------------------------------------------------------------------------
(* Input files *)

\* The sample vectors a row may hold, by column count.
Vectors(c) ==
    IF c = 3 THEN {<<1, 2, 3>>}
    ELSE {<<1, 2, 3, 4>>, <<4, 2, 3, 1>>, <<1, 1, 1, 1>>}

ColumnCounts == {3, 4}
Thresholds == {Zero, Rat(1, 2)}
Budgets == {1, 2, MaxRows * MaxRows + 1}
Methods == {"Bonferroni", "BenjaminiHochberg", "BenjaminiYekutieli"}

\* The parsed records of a tab-delimited file whose labels are tag1, tag2, ...
\* The csv reader rejects records of unequal length inside one file.
Files(tag) ==
    UNION { UNION { { [i \in 1..n |-> [label |-> <<tag, i>>, values |-> vs[i]]] :
                        vs \in [1..n -> Vectors(c)] } :
                    n \in 0..MaxRows } :
            c \in ColumnCounts }

\* get_df: a lazy forward-only iterator over the rows of the file; the model
\* of the iterator is the sequence of rows it yields.
get_df(file) == file

----------------------------------------------------------------------------
(* Correlation Strategy (specification 4.2, Pearson) *)

RECURSIVE Dot(_, _, _)
Dot(xs, ys, n) == IF n = 0 THEN 0 ELSE xs[n] * ys[n] + Dot(xs, ys, n - 1)

RECURSIVE Sum(_, _)
Sum(xs, n) == IF n = 0 THEN 0 ELSE xs[n] + Sum(xs, n - 1)

\* Exact square root of a perfect square.
ISqrt(k) == CHOOSE s \in 0..k : s * s = k

\* Two-sided p-value of the t statistic r*sqrt((n-2)/(1-r^2)) with n-2
\* degrees of freedom.  For n = 4 it is 1 - |r|; for n = 3 it is
\* 1 - (2/pi)*asin(|r|), which is rational at |r| = 0, 1/2, 1.
PValueT(r, n) ==
    IF n = 4 THEN RSub(One, RAbs(r))
    ELSE CASE RAbs(r) = Zero -> One
           [] RAbs(r) = Rat(1, 2) -> Rat(2, 3)
           [] RAbs(r) = One -> Zero

\* correlate(xs, ys) of the strategy built for n columns, on the first k
\* samples of both vectors.  Zero variance follows the stated policy.
correlateOn(xs, ys, k, n) ==
    LET cov == k * Dot(xs, ys, k) - Sum(xs, k) * Sum(ys, k)
        vx == k * Dot(xs, xs, k) - Sum(xs, k) * Sum(xs, k)
        vy == k * Dot(ys, ys, k) - Sum(ys, k) * Sum(ys, k)
    IN  IF vx = 0 \/ vy = 0
        THEN [correlation |-> Zero, p_value |-> One]
        ELSE LET r == Rat(cov, ISqrt(vx * vy))
             IN  [correlation |-> r, p_value |-> PValueT(r, n)]

IMin(a, b) == IF a <= b THEN a ELSE b

\* The outcomes of correlate.  Its contract requires two vectors of
\* number_of_columns samples; on vectors of different lengths the outcome
\* is not defined: the call aborts or scores the common prefix.
correlate(xs, ys, n) ==
    IF Len(xs) = Len(ys)
    THEN {correlateOn(xs, ys, Len(xs), n)}
    ELSE {[correlation |-> NaN, p_value |-> NaN, panic |-> TRUE],
          correlateOn(xs, ys, IMin(Len(xs), Len(ys)), n)}

Panics(score) == "panic" \in DOMAIN score

----------------------------------------------------------------------------
(* CorResult and its ordering *)

None == <<>>
Some(q) == <<q>>

CorResult(gene, gem, correlation, p_value) ==
    [gene |-> gene, gem |-> gem, correlation |-> correlation,
     p_value |-> p_value, adjusted_p_value |-> None]

\* f64::partial_cmp: no ordering when either operand is not a number.
f64_partial_cmp(a, b) ==
    IF IsNaN(a) \/ IsNaN(b) THEN "None"
    ELSE IF RLt(a, b) THEN "Less"
    ELSE IF RLt(b, a) THEN "Greater"
    ELSE "Equal"

partial_cmp_by_correlation(self, other) ==
    f64_partial_cmp(self.correlation, other.correlation)

\* impl PartialOrd for CorResult
partial_cmp(self, other) == f64_partial_cmp(self.p_value, other.p_value)

cmp_descending(self, other) ==
    LET o == partial_cmp(other, self) IN IF o = "None" THEN "panic" ELSE o

\* impl Ord for CorResult: partial_cmp(..).unwrap()
cmp(self, other) ==
    LET o == partial_cmp(self, other) IN IF o = "None" THEN "panic" ELSE o

\* impl Sortable for CorResult: bincode writes the fields in declaration
\* order and reads them back in the same order.
encode(r) == <<r.gene, r.gem, r.correlation, r.p_value, r.adjusted_p_value>>

decode(b) ==
    [gene |-> b[1], gem |-> b[2], correlation |-> b[3],
     p_value |-> b[4], adjusted_p_value |-> b[5]]

----------------------------------------------------------------------------
(* External Sorter (specification 4.3) *)

\* Stable insertion of r into a sequence sorted by cmp.
RECURSIVE Insert(_, _)
Insert(s, r) ==
    IF s = <<>> THEN <<r>>
    ELSE IF cmp(r, Head(s)) = "Less" THEN <<r>> \o s
    ELSE <<Head(s)>> \o Insert(Tail(s), r)

\* The buffer sorted in place by the total order.
RECURSIVE SortBuffer(_)
SortBuffer(buf) ==
    IF buf = <<>> THEN <<>>
    ELSE Insert(SortBuffer(SubSeq(buf, 1, Len(buf) - 1)), buf[Len(buf)])

\* Sorting aborts when a comparison has no ordering.
SortAborts(buf) ==
    \E i, j \in 1..Len(buf) : i # j /\ cmp(buf[i], buf[j]) = "panic"

EncodeAll(buf) == [i \in 1..Len(buf) |-> encode(buf[i])]

\* The heads of the merge cursors: cursor i <= Len(chunks) reads spilled
\* chunk i, cursor Len(chunks) + 1 reads the resident run.
CursorHeads(chunks, resident) ==
    [i \in { k \in 1..Len(chunks) : chunks[k] # <<>> }
           \cup (IF resident # <<>> THEN {Len(chunks) + 1} ELSE {})
       |-> IF i <= Len(chunks) THEN decode(Head(chunks[i])) ELSE Head(resident)]

\* The cursor holding the smallest head; the lowest cursor wins a tie.
MinCursor(heads) ==
    CHOOSE i \in DOMAIN heads :
        \A j \in DOMAIN heads :
            \/ cmp(heads[i], heads[j]) = "Less"
            \/ cmp(heads[i], heads[j]) = "Equal" /\ i <= j
            \/ i = j

----------------------------------------------------------------------------
(* Adjustment Strategy (specification 4.4) *)

RECURSIVE Harmonic(_)
Harmonic(m) == IF m = 0 THEN Zero ELSE RAdd(Harmonic(m - 1), Rat(1, m))

get_adjustment_method(method, m) == [method |-> method, m |-> m, prev |-> Zero]

\* adjust(p_value, rank) on the strategy state st: the adjusted value and
\* the state after the call.
adjust(st, p_value, rank) ==
    LET raw == CASE st.method = "Bonferroni" -> RMul(p_value, Rat(st.m, 1))
                 [] st.method = "BenjaminiHochberg" ->
                        RMul(p_value, Rat(st.m, rank + 1))
                 [] st.method = "BenjaminiYekutieli" ->
                        RMul(RMul(p_value, Rat(st.m, rank + 1)), Harmonic(st.m))
        q == IF st.method = "Bonferroni" THEN RMin(One, raw)
             ELSE RMax(st.prev, RMin(One, raw))
    IN  [q |-> q, state |-> [st EXCEPT !.prev = q]]

----------------------------------------------------------------------------
(* The pipeline state *)

VARIABLES
    file1, file2,            \* the records of the two input files
    correlation_threhold,    \* arguments of compute
    sort_buf_size,
    adjustment_method,
    pc,                      \* position of the call
    len_m1, len_m3,          \* shape returned by get_both_df_and_shape
    number_of_columns,
    total_number_of_elements,
    binding,                 \* which matrix is lazy_m and which collected_m
    lazy_m, collected_m,
    outer_idx, inner_idx,    \* position of iproduct!(lazy_m, collected_m)
    correlate_calls,         \* number of calls of correlate
    scored,                  \* the items produced by correlations_and_p_values
    sorter_used,             \* an ExternalSorter was created
    buffer, chunks, resident,\* the sorter: buffer, spilled chunks, resident run
    ranked,                  \* the items produced by `sorted`, in rank order
    adjustment_struct,
    adjust_calls,            \* the calls adjust(p_value, rank), in call order
    result                   \* the collected VecOfResults

vars == <<file1, file2, correlation_threhold, sort_buf_size, adjustment_method,
          pc, len_m1, len_m3, number_of_columns, total_number_of_elements,
          binding, lazy_m, collected_m, outer_idx, inner_idx, correlate_calls,
          scored, sorter_used, buffer, chunks, resident, ranked,
          adjustment_struct, adjust_calls, result>>

inputs == <<file1, file2, correlation_threhold, sort_buf_size, adjustment_method>>
shape == <<len_m1, len_m3, number_of_columns>>
setup == <<total_number_of_elements, binding, lazy_m, collected_m, sorter_used>>
sorter == <<buffer, chunks, resident>>
tail == <<ranked, adjustment_struct, adjust_calls, result>>

Init ==
    /\ file1 \in Files("g")
    /\ file2 \in Files("h")
    /\ correlation_threhold \in Thresholds
    /\ adjustment_method \in Methods
    \* sort_buf_size is read only when the stream is sorted
    /\ sort_buf_size \in IF adjustment_method = "Bonferroni" THEN {1} ELSE Budgets
    /\ pc = "compute"
    /\ len_m1 = 0 /\ len_m3 = 0 /\ number_of_columns = 0
    /\ total_number_of_elements = 0
    /\ binding = [lazy |-> "none", collected |-> "none"]
    /\ lazy_m = <<>> /\ collected_m = <<>>
    /\ outer_idx = 1 /\ inner_idx = 1
    /\ correlate_calls = 0
    /\ scored = <<>>
    /\ sorter_used = FALSE
    /\ buffer = <<>> /\ chunks = <<>> /\ resident = <<>>
    /\ ranked = <<>>
    /\ adjustment_struct = get_adjustment_method("Bonferroni", 0)
    /\ adjust_calls = <<>>
    /\ result = <<>>

----------------------------------------------------------------------------
(* get_both_df_and_shape *)

\* m1_aux.next().unwrap() aborts on a file without records.
GetShapePanics ==
    /\ pc = "compute"
    /\ get_df(file1) = <<>>
    /\ pc' = "panicked"
    /\ UNCHANGED <<inputs, shape, setup, outer_idx, inner_idx, correlate_calls,
                   scored, sorter, tail>>

\* The column count is read from the first record of the first file only.
get_both_df_and_shape ==
    /\ pc = "compute"
    /\ get_df(file1) # <<>>
    /\ number_of_columns' = Len(Head(get_df(file1)).values)
    /\ len_m1' = Len(Tail(get_df(file1))) + 1
    /\ len_m3' = Len(get_df(file2))
    /\ pc' = "all_vs_all"
    /\ UNCHANGED <<inputs, setup, outer_idx, inner_idx, correlate_calls,
                   scored, sorter, tail>>

----------------------------------------------------------------------------
(* all_vs_all *)

SumOfLengths(l1, l3) == l1 + l3

\* let total_number_of_elements: u64 = len_m1 * len_m3;
TotalNumberOfElements(l1, l3) == l1 * l3

PickLazyInverted(l1, l3) ==
    IF l1 < l3 THEN [lazy |-> "m1", collected |-> "m3"]
    ELSE [lazy |-> "m3", collected |-> "m1"]

\* let (lazy_m, collected_m) = if len_m1 > len_m3 { (m1, m3) } else { (m3, m1) };
PickLazy(l1, l3) ==
    IF l1 > l3 THEN [lazy |-> "m1", collected |-> "m3"]
    ELSE [lazy |-> "m3", collected |-> "m1"]

Matrix(name) == IF name = "m1" THEN get_df(file1) ELSE get_df(file2)

SortsOnlyHochberg(method) == method = "BenjaminiHochberg"

\* match adjustment_method { Bonferroni => unsorted, _ => ExternalSorter }
NeedsSort(method) == method # "Bonferroni"

KeepAll(r, threshold) == TRUE

\* cor_and_p_value.correlation.abs() >= correlation_threhold
KeepResult(r, threshold) == RLeq(threshold, RAbs(r.correlation))

RankAmongSurvivors(position, survivors) == survivors

\* sorted.enumerate() runs before the filter: the rank of an item is its
\* position in the stream, whatever the number of survivors before it.
RankOf(position, survivors) == position

FreshStruct(current, method, m) == get_adjustment_method(method, m)

\* The closure of the adjustment step borrows the one adjustment_struct
\* built before the stream is consumed.
StructForCall(current, method, m) == current

\* Lines 93-101 and the construction of the adjustment struct.
AllVsAllSetup ==
    /\ pc = "all_vs_all"
    /\ total_number_of_elements' = TotalNumberOfElements(len_m1, len_m3)
    /\ binding' = PickLazy(len_m1, len_m3)
    /\ lazy_m' = Matrix(binding'.lazy)
    /\ collected_m' = Matrix(binding'.collected)
    /\ sorter_used' = NeedsSort(adjustment_method)
    /\ adjustment_struct' =
           get_adjustment_method(adjustment_method, total_number_of_elements')
    /\ pc' = IF sorter_used' THEN "sorting" ELSE "streaming"
    /\ UNCHANGED <<inputs, shape, outer_idx, inner_idx, correlate_calls,
                   scored, sorter, ranked, adjust_calls, result>>

\* iproduct!(lazy_m, collected_m): lazy_m is the outer loop.
HasNextPair == outer_idx <= Len(lazy_m) /\ collected_m # <<>>

AdvancePair ==
    IF inner_idx < Len(collected_m)
    THEN outer_idx' = outer_idx /\ inner_idx' = inner_idx + 1
    ELSE outer_idx' = outer_idx + 1 /\ inner_idx' = 1

\* The closure of lines 103-118 on the pair at the cursor, for one outcome
\* of correlate.
ScoredItem(score) ==
    CorResult(lazy_m[outer_idx].label, collected_m[inner_idx].label,
              score.correlation, score.p_value)

Scores ==
    correlate(lazy_m[outer_idx].values, collected_m[inner_idx].values,
              number_of_columns)

\* Lines 131-150 for one item r produced by `sorted`.
RankFilterAdjust(r) ==
    LET rank == RankOf(Len(ranked), Len(result))
        st == StructForCall(adjustment_struct, adjustment_method,
                            total_number_of_elements)
        out == adjust(st, r.p_value, rank)
    IN  /\ ranked' = Append(ranked, r)
        /\ IF KeepResult(r, correlation_threhold)
           THEN /\ adjust_calls' =
                       Append(adjust_calls, [p_value |-> r.p_value, rank |-> rank])
                /\ adjustment_struct' = out.state
                /\ result' = Append(result, [r EXCEPT !.adjusted_p_value = Some(out.q)])
           ELSE UNCHANGED <<adjustment_struct, adjust_calls, result>>

\* Bonferroni: one pull of the collect through the unsorted chain.
PullUnsorted ==
    /\ pc = "streaming"
    /\ HasNextPair
    /\ correlate_calls' = correlate_calls + 1
    /\ \E score \in Scores :
          IF Panics(score)
          THEN /\ pc' = "panicked"
               /\ UNCHANGED <<outer_idx, inner_idx, scored, tail>>
          ELSE /\ pc' = pc
               /\ AdvancePair
               /\ scored' = Append(scored, ScoredItem(score))
               /\ RankFilterAdjust(ScoredItem(score))
    /\ UNCHANGED <<inputs, shape, setup, sorter>>

\* sorter.sort consumes one scored item; a buffer that reaches the budget
\* is sorted and spilled as a new chunk.
SorterPush ==
    /\ pc = "sorting"
    /\ HasNextPair
    /\ correlate_calls' = correlate_calls + 1
    /\ \E score \in Scores :
          IF Panics(score)
          THEN /\ pc' = "panicked"
               /\ UNCHANGED <<outer_idx, inner_idx, scored, sorter>>
          ELSE LET buf == Append(buffer, ScoredItem(score))
               IN  /\ AdvancePair
                   /\ scored' = Append(scored, ScoredItem(score))
                   /\ IF Len(buf) >= sort_buf_size
                      THEN IF SortAborts(buf)
                           THEN pc' = "panicked" /\ UNCHANGED sorter
                           ELSE /\ chunks' = Append(chunks, EncodeAll(SortBuffer(buf)))
                                /\ buffer' = <<>>
                                /\ pc' = pc
                                /\ UNCHANGED resident
                      ELSE /\ buffer' = buf
                           /\ pc' = pc
                           /\ UNCHANGED <<chunks, resident>>
    /\ UNCHANGED <<inputs, shape, setup, tail>>

\* Input exhausted: the remaining buffer is sorted and kept as the resident
\* run; without spilled chunks it is the whole result.
SorterFinish ==
    /\ pc = "sorting"
    /\ ~HasNextPair
    /\ IF SortAborts(buffer)
       THEN pc' = "panicked" /\ UNCHANGED sorter
       ELSE /\ resident' = SortBuffer(buffer)
            /\ buffer' = <<>>
            /\ pc' = "merging"
            /\ UNCHANGED chunks
    /\ UNCHANGED <<inputs, shape, setup, outer_idx, inner_idx, correlate_calls,
                   scored, tail>>

\* One pull of the collect through the k-way merge: the smallest head is
\* emitted and its cursor advances.
MergePull ==
    /\ pc = "merging"
    /\ DOMAIN CursorHeads(chunks, resident) # {}
    /\ LET heads == CursorHeads(chunks, resident)
           i == MinCursor(heads)
       IN  /\ IF i <= Len(chunks)
              THEN chunks' = [chunks EXCEPT ![i] = Tail(@)] /\ UNCHANGED resident
              ELSE resident' = Tail(resident) /\ UNCHANGED chunks
           /\ RankFilterAdjust(heads[i])
    /\ UNCHANGED <<inputs, shape, setup, outer_idx, inner_idx, correlate_calls,
                   scored, buffer, pc>>

\* adjusted.collect() returns when the stream is exhausted.
Collect ==
    /\ \/ pc = "streaming" /\ ~HasNextPair
       \/ pc = "merging" /\ DOMAIN CursorHeads(chunks, resident) = {}
    /\ pc' = "done"
    /\ UNCHANGED <<inputs, shape, setup, outer_idx, inner_idx, correlate_calls,
                   scored, sorter, tail>>

Next ==
    \/ GetShapePanics
    \/ get_both_df_and_shape
    \/ AllVsAllSetup
    \/ PullUnsorted
    \/ SorterPush
    \/ SorterFinish
    \/ MergePull
    \/ Collect

Spec == Init /\ [][Next]_vars

----------------------------------------------------------------------------
(* Properties *)

Unadjusted(r) == [r EXCEPT !.adjusted_p_value = None]
Started == binding.lazy # "none"
Survives(r) == correlation_threhold[1] * r.correlation[2]
                   <= IAbs(r.correlation[1]) * correlation_threhold[2]
AscendingByPValue(s) ==
    \A i, j \in 1..Len(s) :
        i < j => s[i].p_value[1] * s[j].p_value[2] <= s[j].p_value[1] * s[i].p_value[2]
Occurrences(s, x) == Cardinality({k \in 1..Len(s) : s[k] = x})
InputUnsorted == ~AscendingByPValue(scored)

\* C1: the returned collection has at most row_count1 * row_count2 results
\* and every result has abs(correlation) >= correlation_threshold.
C1_BoundedAndAboveThreshold ==
    /\ Len(result) <= Len(file1) * Len(file2)
    /\ Started => Len(result) <= len_m1 * len_m3
    /\ \A i \in 1..Len(result) : Survives(result[i])

C1_Witness ==
    /\ pc = "done"
    /\ correlation_threhold = Rat(1, 2)
    /\ Len(result) < Len(ranked)
    /\ \E i \in 1..Len(result) : result[i].correlation = Rat(-4, 5)

\* C2: every result's first label is the label of a row of matrix 1, its
\* second label the label of a row of matrix 2, and its correlation and
\* p-value are those of that pair of rows.
C2_LabelsFollowMatrices ==
    \A i \in 1..Len(result) :
        \E a \in 1..Len(file1), b \in 1..Len(file2) :
            /\ result[i].gene = file1[a].label
            /\ result[i].gem = file2[b].label
            /\ [correlation |-> result[i].correlation, p_value |-> result[i].p_value]
                   \in correlate(file1[a].values, file2[b].values, number_of_columns)

\* C3: adjust is called once per surviving result, in strictly increasing
\* rank order, and the rank passed is the zero-based position of the result
\* in the whole stream before the filter.
C3_RankIsStreamPosition ==
    /\ Len(adjust_calls) = Len(result)
    /\ \A i \in 1..Len(adjust_calls) :
          /\ adjust_calls[i].rank \in 0..(Len(ranked) - 1)
          /\ ranked[adjust_calls[i].rank + 1] = Unadjusted(result[i])
          /\ adjust_calls[i].p_value = result[i].p_value
    /\ \A i, j \in 1..Len(adjust_calls) :
          i < j => adjust_calls[i].rank < adjust_calls[j].rank
    /\ \A k \in 1..Len(ranked) :
          Survives(ranked[k]) <=>
              \E i \in 1..Len(adjust_calls) : adjust_calls[i].rank = k - 1

C3_Witness ==
    /\ pc = "done"
    /\ Len(adjust_calls) >= 2
    /\ Len(adjust_calls) < Len(ranked)
    /\ \E i \in 1..Len(adjust_calls) : adjust_calls[i].rank > i - 1

\* C4: with different column counts in the two matrices the call fails
\* before any pair is scored and never returns a result collection.
C4_MismatchFailsBeforeScoring ==
    (/\ file1 # <<>>
     /\ file2 # <<>>
     /\ Len(file1[1].values) # Len(file2[1].values))
        => (correlate_calls = 0 /\ pc # "done")

\* C5: for any input and any budget >= 1 the external sorter produces
\* exactly the input records, ascending by p-value, with the p-values of
\* the in-memory sort of the same input.
C5_ExternalSortEqualsInMemorySort ==
    sorter_used =>
        /\ AscendingByPValue(ranked)
        /\ pc = "done" =>
              LET in_memory == SortBuffer(scored)
              IN  /\ Len(ranked) = Len(scored)
                  /\ \A k \in 1..Len(scored) :
                        Occurrences(ranked, scored[k]) = Occurrences(scored, scored[k])
                  /\ \A k \in 1..Len(ranked) :
                        ranked[k].p_value = in_memory[k].p_value

C5_Witness ==
    /\ pc = "done"
    /\ sorter_used
    /\ sort_buf_size = 1
    /\ Len(chunks) >= 3
    /\ InputUnsorted

\* C6: with Benjamini-Hochberg and Benjamini-Yekutieli a result of lower
\* rank never has a larger adjusted p-value than a result of higher rank.
C6_StepUpMonotone ==
    (pc = "done" /\ adjustment_method # "Bonferroni") =>
        \A i, j \in 1..Len(result) :
            adjust_calls[i].rank < adjust_calls[j].rank =>
                LET qi == result[i].adjusted_p_value[1]
                    qj == result[j].adjusted_p_value[1]
                IN  qi[1] * qj[2] <= qj[1] * qi[2]

C6_Witness ==
    /\ pc = "done"
    /\ adjustment_method = "BenjaminiHochberg"
    /\ \E i \in 1..Len(result) :
          LET q == result[i].adjusted_p_value[1]
              raw == RMul(result[i].p_value,
                          Rat(len_m1 * len_m3, adjust_calls[i].rank + 1))
          IN  RLt(raw, q) /\ RLt(q, One)

\* C7: with Bonferroni every result has adjusted p-value min(1, p * m) with
\* m = row_count1 * row_count2, whatever the number of survivors, and the
\* adjusted p-value is never below the raw p-value.
C7_BonferroniUsesTotalCount ==
    (pc = "done" /\ adjustment_method = "Bonferroni") =>
        \A i \in 1..Len(result) :
            LET p == result[i].p_value
                q == result[i].adjusted_p_value[1]
                m == Len(file1) * Len(file2)
                pm == <<p[1] * m, p[2]>>
            IN  /\ result[i].adjusted_p_value # None
                /\ IF pm[1] <= pm[2] THEN q[1] * pm[2] = pm[1] * q[2] ELSE q = One
                /\ p[1] * q[2] <= q[1] * p[2]

C7_Witness ==
    /\ pc = "done"
    /\ adjustment_method = "Bonferroni"
    /\ Len(result) < Len(ranked)
    /\ \E i \in 1..Len(result) :
          /\ RLt(result[i].p_value, result[i].adjusted_p_value[1])
          /\ RLt(result[i].adjusted_p_value[1], One)

C9_SmallerIsMaterialized ==
    Started =>
        /\ binding.lazy \in {"m1", "m3"}
        /\ binding.collected \in {"m1", "m3"} \ {binding.lazy}
        /\ Len(Matrix(binding.collected)) <= Len(Matrix(binding.lazy))
        /\ collected_m = Matrix(binding.collected)
        /\ lazy_m = Matrix(binding.lazy)
        /\ \A k \in 1..Len(scored) :
              /\ scored[k].gene = lazy_m[((k - 1) \div Len(collected_m)) + 1].label
              /\ scored[k].gem = collected_m[((k - 1) % Len(collected_m)) + 1].label

C9_Witness ==
    /\ pc = "done"
    /\ binding.lazy = "m1"
    /\ binding.collected = "m3"
    /\ Len(file1) > Len(file2)
    /\ Len(scored) = Len(file1) * Len(file2)
    /\ Len(scored) >= 2

====
